---------------------------- MODULE Spec2Model ----------------------------
(***************************************************************************)
(* Model of compilation-utils (src/index.js): runWithinEnvironment,        *)
(* configure, patch and make, the helpers _findConfigureScript and         *)
(* _machineInformation, and the library calls they rest on (_.opts,        *)
(* _.isReallyObject, _.toArray, path.join, u.logExec).                     *)
(*                                                                         *)
(* JavaScript values are tagged records.  A string is a sequence of        *)
(* one-character strings, so that splitting, joining and formatting are    *)
(* computed and not assumed.                                               *)
(***************************************************************************)
EXTENDS Integers, Sequences, FiniteSets, TLC

\* Bounds of the model.
MaxCalls == 2
MaxCpuLines == 3

\* Number.POSITIVE_INFINITY: larger than any job count the model can compute.
Infinity == 1000000

---------------------------------------------------------------------------
\* JavaScript values

Undefined == [t |-> "undefined"]
Null == [t |-> "null"]
Str(s) == [t |-> "string", s |-> s]
Num(n) == [t |-> "number", n |-> n]
Bool(b) == [t |-> "boolean", b |-> b]
Arr(a) == [t |-> "array", a |-> a]
Obj(o) == [t |-> "object", o |-> o]
\* An object the library only passes through (an env map, a logger).
Opaque(id) == [t |-> "object", id |-> id]

\* The option keys the library reads or defaults.  An object is a record over
\* all of them; a key the object does not have reads as undefined.
Keys == {"cwd", "env", "logger", "patchLevel", "supportsParallelBuild", "maxParallelJobs"}
KeyOrder == <<"cwd", "env", "logger", "patchLevel", "supportsParallelBuild", "maxParallelJobs">>
NoKeys == [k \in Keys |-> Undefined]
With(o, k, v) == [o EXCEPT ![k] = v]

isUndefined(v) == v.t = "undefined"
isNull(v) == v.t = "null"
\* nami-utils: an object that is neither an array nor a function.
isReallyObject(v) == v.t = "object"

\* JavaScript truthiness.
Truthy(v) ==
  CASE v.t = "undefined" -> FALSE
    [] v.t = "null" -> FALSE
    [] v.t = "boolean" -> v.b
    [] v.t = "number" -> v.n # 0
    [] v.t = "string" -> v.s # <<>>
    [] OTHER -> TRUE

Digit(d) == <<"0", "1", "2", "3", "4", "5", "6", "7", "8", "9">>[d + 1]

RECURSIVE Decimal(_)
Decimal(n) == IF n < 10 THEN <<Digit(n)>> ELSE Decimal(n \div 10) \o <<Digit(n % 10)>>

\* String(v), as a template literal `${v}` computes it.
ToStr(v) ==
  CASE v.t = "undefined" -> <<"u","n","d","e","f","i","n","e","d">>
    [] v.t = "null" -> <<"n","u","l","l">>
    [] v.t = "boolean" -> IF v.b THEN <<"t","r","u","e">> ELSE <<"f","a","l","s","e">>
    [] v.t = "number" -> IF v.n >= Infinity THEN <<"I","n","f","i","n","i","t","y">>
                         ELSE IF v.n < 0 THEN <<"-">> \o Decimal(0 - v.n)
                         ELSE Decimal(v.n)
    [] v.t = "string" -> v.s
    [] OTHER -> <<"[","o","b","j","e","c","t","]">>

\* Array.prototype.join
RECURSIVE Join(_, _)
Join(strs, sep) ==
  IF strs = <<>> THEN <<>>
  ELSE IF Len(strs) = 1 THEN strs[1]
  ELSE strs[1] \o sep \o Join(Tail(strs), sep)

\* Whether sub occurs in s.
Contains(s, sub) ==
  \E i \in 0..(Len(s) - Len(sub)) : SubSeq(s, i + 1, i + Len(sub)) = sub

EndsWith(s, suffix) ==
  /\ Len(s) >= Len(suffix)
  /\ SubSeq(s, Len(s) - Len(suffix) + 1, Len(s)) = suffix

StartsWith(s, prefix) ==
  /\ Len(s) >= Len(prefix)
  /\ SubSeq(s, 1, Len(prefix)) = prefix

\* The values of an object's own (defined) keys, in key order.
RECURSIVE ValuesFrom(_, _)
ValuesFrom(o, i) ==
  IF i > Len(KeyOrder) THEN <<>>
  ELSE (IF isUndefined(o[KeyOrder[i]]) THEN <<>> ELSE <<o[KeyOrder[i]]>>) \o ValuesFrom(o, i + 1)

\* lodash _.toArray: an array is copied, a string is split into its
\* characters, an object gives its values, anything else the empty array.
toArray(v) ==
  CASE v.t = "array" -> v.a
    [] v.t = "string" -> [i \in 1..Len(v.s) |-> Str(<<v.s[i]>>)]
    [] v.t = "object" -> IF "o" \in DOMAIN v THEN ValuesFrom(v.o, 1) ELSE <<>>
    [] OTHER -> <<>>

\* nami-utils _.opts(options, defaults): a copy of options (an empty object
\* when options is null or undefined) in which every key options leaves
\* undefined takes the default's value.  A key options sets wins.
opts(options, defaults) ==
  LET given == IF options.t = "object" THEN options.o ELSE NoKeys
  IN Obj([k \in Keys |-> IF isUndefined(given[k]) THEN defaults[k] ELSE given[k]])

\* path.join(dir, name) for an absolute dir and a plain file name.
pathJoin(dir, name) ==
  IF EndsWith(dir, <<"/">>) THEN dir \o name ELSE dir \o <<"/">> \o name

---------------------------------------------------------------------------
\* The library's functions

wellKnownScripts == << <<"c","o","n","f","i","g","u","r","e">>, <<"c","o","n","f","i","g">> >>

\* _.find(wellKnownScripts, script => nfile.exists(path.join(dir, script))):
\* the index of the first script that exists, 0 when none does.  present is
\* the set of file names that exist directly under dir.
\* A find that keeps the last script that exists.
FindLast(present) ==
  IF \E i \in 1..Len(wellKnownScripts) : wellKnownScripts[i] \in present
  THEN CHOOSE i \in 1..Len(wellKnownScripts) :
         /\ wellKnownScripts[i] \in present
         /\ \A j \in (i + 1)..Len(wellKnownScripts) : wellKnownScripts[j] \notin present
  ELSE 0

FindFirst(present) ==
  IF \E i \in 1..Len(wellKnownScripts) : wellKnownScripts[i] \in present
  THEN CHOOSE i \in 1..Len(wellKnownScripts) :
         /\ wellKnownScripts[i] \in present
         /\ \A j \in 1..(i - 1) : wellKnownScripts[j] \notin present
  ELSE 0

\* A message that leaves the directory out.
CannotFindMessageNoDir(dir) ==
  <<"C","a","n","n","o","t"," ","f","i","n","d"," ","a","n","y"," ","o","f"," ">>
    \o Join(wellKnownScripts, <<",", " ">>)

CannotFindMessage(dir) ==
  <<"C","a","n","n","o","t"," ","f","i","n","d"," ","a","n","y"," ","o","f"," ">>
    \o Join(wellKnownScripts, <<",", " ">>)
    \o <<" ","u","n","d","e","r"," ">> \o dir

\* A _findConfigureScript without the _.isEmpty check: never throws.
findConfigureScriptUnchecked(dir, present) ==
  LET i == FindFirst(present)
  IN [threw |-> FALSE, message |-> <<>>,
      path |-> IF i = 0 THEN dir ELSE pathJoin(dir, wellKnownScripts[i])]

\* _findConfigureScript(dir): the script's path, or the error thrown.
findConfigureScript(dir, present) ==
  LET i == FindFirst(present)
  IN IF i = 0
     THEN [threw |-> TRUE, message |-> CannotFindMessage(dir), path |-> <<>>]
     ELSE [threw |-> FALSE, message |-> <<>>, path |-> pathJoin(dir, wellKnownScripts[i])]

EmptyEnv == Opaque("{}")

\* A runWithinEnvironment that takes an object in the args position as the
\* options even when options were given.
runWithinEnvironmentAlwaysSwaps(cwd, cmd, args, options) ==
  LET swap == isReallyObject(args)
      options1 == IF swap THEN args ELSE options
      args1 == IF swap THEN Arr(<<>>) ELSE args
      options2 == opts(options1, With(With(With(NoKeys, "cwd", Str(cwd)), "env", EmptyEnv), "logger", Null))
      args2 == IF isNull(args1) \/ isUndefined(args1) THEN Arr(<<>>) ELSE args1
  IN [cmd |-> cmd, args |-> args2, options |-> options2]

\* runWithinEnvironment(cwd, cmd, args, options): the (cmd, args, options)
\* it hands to u.logExec.
runWithinEnvironment(cwd, cmd, args, options) ==
  LET swap == isUndefined(options) /\ isReallyObject(args)
      options1 == IF swap THEN args ELSE options
      args1 == IF swap THEN Arr(<<>>) ELSE args
      options2 == opts(options1, With(With(With(NoKeys, "cwd", Str(cwd)), "env", EmptyEnv), "logger", Null))
      args2 == IF isNull(args1) \/ isUndefined(args1) THEN Arr(<<>>) ELSE args1
  IN [cmd |-> cmd, args |-> args2, options |-> options2]

NoRequest == [cmd |-> <<>>, args |-> Undefined, options |-> Undefined]

\* configure(cwd, args, options): the error _findConfigureScript throws, or
\* the request runWithinEnvironment makes.
configure(cwd, args, options, present) ==
  LET swap == isUndefined(options) /\ isReallyObject(args)
      options1 == IF swap THEN args ELSE options
      args1 == IF swap THEN Arr(<<>>) ELSE args
      script == findConfigureScript(cwd, present)
  IN IF script.threw
     THEN [threw |-> TRUE, message |-> script.message, request |-> NoRequest]
     ELSE [threw |-> FALSE, message |-> <<>>,
           request |-> runWithinEnvironment(cwd, script.path, args1, options1)]

\* A patch that formats the patch level before the defaults are filled in.
patchNoDefault(cwd, patchFile, options) ==
  LET given == IF options.t = "object" THEN options.o ELSE NoKeys
  IN runWithinEnvironment(cwd, <<"p","a","t","c","h">>,
       Arr(<< Str(<<"-","p">> \o ToStr(given["patchLevel"])), Str(<<"-","i">>), Str(patchFile) >>),
       opts(options, With(NoKeys, "patchLevel", Num(0))))

\* patch(cwd, patchFile, options)
patch(cwd, patchFile, options) ==
  LET options1 == opts(options, With(NoKeys, "patchLevel", Num(0)))
  IN runWithinEnvironment(cwd, <<"p","a","t","c","h">>,
       Arr(<< Str(<<"-","p">> \o ToStr(options1.o.patchLevel)), Str(<<"-","i">>), Str(patchFile) >>),
       options1)

Min(a, b) == IF a <= b THEN a ELSE b
Max(a, b) == IF a >= b THEN a ELSE b

Whitespace == {" ", "\t"}
Processor == <<"p","r","o","c","e","s","s","o","r">>

\* line.match(/^processor\s+:/)
MatchesProcessor(line) ==
  /\ StartsWith(line, Processor)
  /\ \E k \in 1..(Len(line) - Len(Processor)) :
       /\ \A j \in 1..k : line[Len(Processor) + j] \in Whitespace
       /\ Len(line) > Len(Processor) + k
       /\ line[Len(Processor) + k + 1] = ":"

RECURSIVE CountProcessors(_)
CountProcessors(lines) ==
  IF lines = <<>> THEN 0
  ELSE (IF MatchesProcessor(Head(lines)) THEN 1 ELSE 0) + CountProcessors(Tail(lines))

\* The function _machineInformation memoizes: info.cores on a host.
machineInformation(host) ==
  IF host.platform = "linux" THEN Max(CountProcessors(host.cpuinfo), 2) ELSE 2

\* A memoize that never finds its cache.
memoizeNoCache(cache, host) ==
  [cache |-> [cached |-> TRUE, cores |-> machineInformation(host)],
   value |-> machineInformation(host), ran |-> TRUE]

\* _.memoize(f)(): the cached value when there is one, else f's, cached.
memoize(cache, host) ==
  IF cache.cached
  THEN [cache |-> cache, value |-> cache.cores, ran |-> FALSE]
  ELSE [cache |-> [cached |-> TRUE, cores |-> machineInformation(host)],
        value |-> machineInformation(host), ran |-> TRUE]

\* The options of a make call, overload resolved and defaults filled.
makeOptions(args, options) ==
  LET swap == isUndefined(options) /\ isReallyObject(args)
      options1 == IF swap THEN args ELSE options
  IN opts(options1, With(With(NoKeys, "supportsParallelBuild", Bool(TRUE)), "maxParallelJobs", Num(Infinity)))

\* make(cwd, args, options), with cores the value _machineInformation().cores
\* gives when it is read.  The call always has its cwd argument, so
\* arguments.length > 0 and the caller's args are always appended.
make(cwd, args, options, cores) ==
  LET swap == isUndefined(options) /\ isReallyObject(args)
      args1 == IF swap THEN Arr(<<>>) ELSE args
      options1 == makeOptions(args, options)
      makeArgs == IF Truthy(options1.o.supportsParallelBuild)
                  THEN << Str(<<"-","-","j","o","b","s","=">>
                              \o ToStr(Num(Min(cores + 1, options1.o.maxParallelJobs.n)))) >>
                  ELSE <<>>
  IN runWithinEnvironment(cwd, <<"m","a","k","e">>, Arr(makeArgs \o toArray(args1)), options1)

---------------------------------------------------------------------------
\* u.logExec(cmd, args, options): launches the child in options.cwd, waits
\* for it, and returns its stdout or throws.

logExecCwd(request) == request.options.o.cwd

ExitMessage(code) ==
  <<"P","r","o","g","r","a","m"," ","e","x","i","t","e","d"," ","w","i","t","h"," ",
    "e","x","i","t"," ","c","o","d","e"," ">> \o ToStr(Num(code))

NoOutcome == [kind |-> "none", message |-> <<>>, code |-> 0, stdout |-> <<>>, stderr |-> <<>>]

\* A logExec whose error does not carry the child's stderr.
logExecOutcomeNoStderr(result) ==
  IF result.code = 0
  THEN [kind |-> "return", message |-> <<>>, code |-> 0,
        stdout |-> result.stdout, stderr |-> <<>>]
  ELSE [kind |-> "ExecutionError", message |-> ExitMessage(result.code), code |-> result.code,
        stdout |-> result.stdout, stderr |-> <<>>]

logExecOutcome(result) ==
  IF result.code = 0
  THEN [kind |-> "return", message |-> <<>>, code |-> 0,
        stdout |-> result.stdout, stderr |-> <<>>]
  ELSE [kind |-> "ExecutionError", message |-> ExitMessage(result.code), code |-> result.code,
        stdout |-> result.stdout, stderr |-> result.stderr]

SpawnError == [kind |-> "SpawnError", message |-> <<>>, code |-> 0, stdout |-> <<>>, stderr |-> <<>>]

ConfigNotFoundError(message) ==
  [kind |-> "ConfigNotFoundError", message |-> message, code |-> 0, stdout |-> <<>>, stderr |-> <<>>]

---------------------------------------------------------------------------
\* Inputs

WorkDir == <<"/","w">>
OtherDir == <<"/","o">>
Pwd == <<"p","w","d">>
PatchFile == <<"a",".","p">>
EnvTest == Opaque("{TEST: 1}")

PlainArgs ==
  { Undefined, Null, Str(<<"a","b">>), Arr(<< Str(<<"a","b">>), Str(<<"c">>) >>) }

RunObjs ==
  { Obj(NoKeys), Obj(With(NoKeys, "cwd", Str(OtherDir))), Obj(With(NoKeys, "env", EnvTest)) }

ConfigureObjs == { Obj(With(NoKeys, "env", EnvTest)) }

PatchOptions ==
  { Undefined, Null, Obj(NoKeys) } \cup { Obj(With(NoKeys, "patchLevel", Num(n))) : n \in {1, 12} }

MakeObjs ==
  { Obj(With(NoKeys, "supportsParallelBuild", Bool(FALSE))),
    Obj(With(NoKeys, "maxParallelJobs", Num(1))),
    Obj(With(NoKeys, "maxParallelJobs", Num(3))),
    Obj(With(With(NoKeys, "supportsParallelBuild", Bool(FALSE)), "maxParallelJobs", Num(1))) }

\* The (args, options) pairs of a call: args of every shape with options of
\* every shape, and an object in the args position with no options.
Pairs(objs) ==
  (PlainArgs \X ({Undefined, Null} \cup objs)) \cup (objs \X {Undefined, Null})

CpuLines ==
  { <<"p","r","o","c","e","s","s","o","r","\t",":"," ","0">>,
    <<"p","r","o","c","e","s","s","o","r",":"," ","0">>,
    <<"m","o","d","e","l"," ","n","a","m","e","\t",":"," ","x">> }

CpuInfos == UNION { [1..n -> CpuLines] : n \in 0..MaxCpuLines }

Hosts ==
  { [platform |-> "linux", cpuinfo |-> c] : c \in CpuInfos }
    \cup { [platform |-> "darwin", cpuinfo |-> <<>>] }

\* The hosts whose /proc/cpuinfo holds processor lines only, and the others.
ProcessorHosts ==
  { h \in Hosts : \A i \in 1..Len(h.cpuinfo) : h.cpuinfo[i] = <<"p","r","o","c","e","s","s","o","r","\t",":"," ","0">> }

NoHost == [platform |-> "unread", cpuinfo |-> <<>>]

ChildResults ==
  { [code |-> 0, stdout |-> <<"o">>, stderr |-> <<>>],
    [code |-> 1, stdout |-> <<>>, stderr |-> <<"e">>],
    [code |-> 127, stdout |-> <<"o">>, stderr |-> <<"e">>] }

---------------------------------------------------------------------------
\* The process that calls the library

VARIABLES
  pc,           \* "idle", "blocked" (inside logExec, the child running), "done"
  call,         \* the call in progress or last made
  request,      \* what the call handed to logExec
  childCwd,     \* the directory the call's child was launched in
  childResult,  \* the exit code and output of the call's child, once it has exited
  callChildren, \* children the call in progress or last made has launched
  outcome,      \* what the last call returned or threw
  invocations,  \* calls made
  spawned,      \* children launched
  failedEarly,  \* calls that threw without launching a child
  alive,        \* children running
  cache,        \* _machineInformation's memoize cache
  hostRead,     \* the platform and /proc/cpuinfo the detection read
  reads,        \* times make called _machineInformation()
  detections,   \* times the memoized function ran
  firstCores    \* the core count the first detection computed

vars == <<pc, call, request, childCwd, childResult, callChildren, outcome, invocations,
          spawned, failedEarly, alive, cache, hostRead, reads, detections, firstCores>>

hostVars == <<cache, hostRead, reads, detections, firstCores>>

NoResult == [code |-> -1, stdout |-> <<>>, stderr |-> <<>>]

NoCall == [api |-> "none", cwd |-> <<>>, cmd |-> <<>>, args |-> Undefined,
           options |-> Undefined, present |-> {}, cores |-> 0]

Init ==
  /\ pc = "idle"
  /\ call = NoCall
  /\ request = NoRequest
  /\ childCwd = Undefined
  /\ childResult = NoResult
  /\ callChildren = 0
  /\ outcome = NoOutcome
  /\ invocations = 0
  /\ spawned = 0
  /\ failedEarly = 0
  /\ alive = 0
  /\ cache = [cached |-> FALSE, cores |-> 0]
  /\ hostRead = NoHost
  /\ reads = 0
  /\ detections = 0
  /\ firstCores = 0

CanCall == pc # "blocked" /\ invocations < MaxCalls

\* logExec up to the point where it waits: the child is launched, or the
\* executable cannot be started and logExec throws.
Launch(req) ==
  /\ request' = req
  /\ invocations' = invocations + 1
  /\ childResult' = NoResult
  /\ \E started \in BOOLEAN :
       IF started
       THEN /\ pc' = "blocked"
            /\ childCwd' = logExecCwd(req)
            /\ callChildren' = 1
            /\ spawned' = spawned + 1
            /\ alive' = alive + 1
            /\ outcome' = NoOutcome
            /\ UNCHANGED failedEarly
       ELSE /\ pc' = "done"
            /\ childCwd' = Undefined
            /\ callChildren' = 0
            /\ outcome' = SpawnError
            /\ failedEarly' = failedEarly + 1
            /\ UNCHANGED <<spawned, alive>>

\* The call throws before it reaches logExec.
Throw(error) ==
  /\ pc' = "done"
  /\ request' = NoRequest
  /\ childCwd' = Undefined
  /\ childResult' = NoResult
  /\ callChildren' = 0
  /\ outcome' = error
  /\ invocations' = invocations + 1
  /\ failedEarly' = failedEarly + 1
  /\ UNCHANGED <<spawned, alive>>

Run(cwd, cmd, args, options) ==
  /\ CanCall
  /\ call' = [api |-> "run", cwd |-> cwd, cmd |-> cmd, args |-> args,
              options |-> options, present |-> {}, cores |-> 0]
  /\ Launch(runWithinEnvironment(cwd, cmd, args, options))
  /\ UNCHANGED hostVars

Configure(cwd, args, options, present) ==
  /\ CanCall
  /\ call' = [api |-> "configure", cwd |-> cwd, cmd |-> <<>>, args |-> args,
              options |-> options, present |-> present, cores |-> 0]
  /\ LET r == configure(cwd, args, options, present)
     IN IF r.threw THEN Throw(ConfigNotFoundError(r.message)) ELSE Launch(r.request)
  /\ UNCHANGED hostVars

Patch(cwd, patchFile, options) ==
  /\ CanCall
  /\ call' = [api |-> "patch", cwd |-> cwd, cmd |-> patchFile, args |-> Undefined,
              options |-> options, present |-> {}, cores |-> 0]
  /\ Launch(patch(cwd, patchFile, options))
  /\ UNCHANGED hostVars

Make(cwd, args, options, hosts) ==
  /\ CanCall
  /\ IF Truthy(makeOptions(args, options).o.supportsParallelBuild)
     THEN \E host \in (IF hostRead = NoHost THEN hosts ELSE {hostRead}) :
            LET m == memoize(cache, host)
            IN /\ cache' = m.cache
               /\ reads' = reads + 1
               /\ detections' = IF m.ran THEN detections + 1 ELSE detections
               /\ hostRead' = IF m.ran THEN host ELSE hostRead
               /\ firstCores' = IF m.ran /\ detections = 0 THEN m.value ELSE firstCores
               /\ call' = [api |-> "make", cwd |-> cwd, cmd |-> <<>>, args |-> args,
                           options |-> options, present |-> {}, cores |-> m.value]
               /\ Launch(make(cwd, args, options, m.value))
     ELSE /\ call' = [api |-> "make", cwd |-> cwd, cmd |-> <<>>, args |-> args,
                      options |-> options, present |-> {}, cores |-> 0]
          /\ Launch(make(cwd, args, options, 0))
          /\ UNCHANGED hostVars

\* The child terminates; logExec returns its stdout or throws.
ChildExit(result) ==
  /\ pc = "blocked"
  /\ pc' = "done"
  /\ alive' = alive - 1
  /\ childResult' = result
  /\ outcome' = logExecOutcome(result)
  /\ UNCHANGED <<call, request, childCwd, callChildren, invocations, spawned, failedEarly, hostVars>>

Next ==
  \/ \E p \in Pairs(ConfigureObjs), present \in SUBSET {wellKnownScripts[1], wellKnownScripts[2]} :
       Configure(WorkDir, p[1], p[2], present)
  \/ \E p \in Pairs(RunObjs) : Run(WorkDir, Pwd, p[1], p[2])
  \/ \E o \in PatchOptions : Patch(WorkDir, PatchFile, o)
  \/ \E p \in Pairs(MakeObjs) : Make(WorkDir, p[1], p[2], ProcessorHosts)
  \/ \E r \in ChildResults : ChildExit(r)

Spec == Init /\ [][Next]_vars

\* A process that only builds, on any host.
NextMake ==
  \/ \E args \in {Undefined, Arr(<< Str(<<"a","b">>) >>)}, options \in {Undefined} \cup MakeObjs :
       Make(WorkDir, args, options, Hosts)
  \/ \E r \in ChildResults : ChildExit(r)

SpecMake == Init /\ [][NextMake]_vars

---------------------------------------------------------------------------
\* What the properties below read off a call and its request

Launched == request # NoRequest

\* The call's second argument-position parameter is taken as its options.
Overloaded == isUndefined(call.options) /\ call.args.t = "object"

\* The options object the caller gave, NoKeys when the caller gave none.
CallerOptions ==
  IF Overloaded THEN call.args.o
  ELSE IF call.options.t = "object" THEN call.options.o
  ELSE NoKeys

\* The arguments the caller gave, as a list: a list as it is, a string as one
\* argument, nothing when absent or when the parameter was the options.
CallerArgs ==
  IF Overloaded THEN <<>>
  ELSE CASE call.args.t = "array" -> call.args.a
         [] call.args.t = "string" -> <<call.args>>
         [] OTHER -> <<>>

ArgsAreArguments == Overloaded \/ call.args.t \in {"array", "string", "undefined", "null"}

WantsParallelBuild ==
  IF isUndefined(CallerOptions["supportsParallelBuild"]) THEN TRUE
  ELSE Truthy(CallerOptions["supportsParallelBuild"])

JobCount ==
  IF isUndefined(CallerOptions["maxParallelJobs"]) THEN cache.cores + 1
  ELSE Min(cache.cores + 1, CallerOptions["maxParallelJobs"].n)

JobsFlag(n) == Str(<<"-","-","j","o","b","s","=">> \o Decimal(n))

IsJobsFlag(v) == v.t = "string" /\ StartsWith(v.s, <<"-","-","j","o","b","s">>)

\* The default a call's options take for key k.
DefaultOption(k) ==
  CASE k = "cwd" -> Str(call.cwd)
    [] k = "env" -> EmptyEnv
    [] k = "logger" -> Null
    [] k = "patchLevel" /\ call.api = "patch" -> Num(0)
    [] k = "supportsParallelBuild" /\ call.api = "make" -> Bool(TRUE)
    [] k = "maxParallelJobs" /\ call.api = "make" -> Num(Infinity)
    [] OTHER -> Undefined

ProcessorLine == <<"p","r","o","c","e","s","s","o","r","\t",":"," ","0">>

---------------------------------------------------------------------------
\* C1: every child of a run call is launched with the call's workingDir as its
\* current directory, whatever options the caller passes.
C1_ChildRunsInWorkingDir ==
  (call.api = "run" /\ callChildren = 1) => childCwd = Str(call.cwd)

\* C2: a run call whose child exits with a nonzero code c throws an
\* ExecutionError with the message "Program exited with exit code c" that
\* carries c and the child's stdout and stderr; one whose child exits with 0
\* returns the child's stdout.
C2_RunOutcome ==
  (call.api = "run" /\ pc = "done" /\ childResult # NoResult) =>
    IF childResult.code = 0
    THEN outcome.kind = "return" /\ outcome.stdout = childResult.stdout
    ELSE /\ outcome.kind = "ExecutionError"
         /\ outcome.message =
              <<"P","r","o","g","r","a","m"," ","e","x","i","t","e","d"," ","w","i","t","h"," ",
                "e","x","i","t"," ","c","o","d","e"," ">> \o Decimal(childResult.code)
         /\ outcome.code = childResult.code
         /\ outcome.stdout = childResult.stdout
         /\ outcome.stderr = childResult.stderr

C2_Witness ==
  /\ call.api = "run" /\ pc = "done"
  /\ childResult.code = 127
  /\ outcome.kind = "ExecutionError"
  /\ outcome.stderr = <<"e">>

\* C3: a make call with supportsParallelBuild true hands the command make the
\* flag --jobs=N, N = min(cores + 1, maxParallelJobs), followed by the caller's
\* arguments unchanged and in order.
C3_JobsFlagThenCallerArgs ==
  (call.api = "make" /\ Launched /\ ArgsAreArguments /\ WantsParallelBuild) =>
    /\ request.cmd = <<"m","a","k","e">>
    /\ request.args = Arr(<<JobsFlag(JobCount)>> \o CallerArgs)

\* C4: a make call with supportsParallelBuild false hands the command make
\* exactly the caller's arguments, with no --jobs flag.
C4_NoJobsFlag ==
  (call.api = "make" /\ Launched /\ ArgsAreArguments /\ ~WantsParallelBuild) =>
    /\ \A i \in 1..Len(request.args.a) : ~IsJobsFlag(request.args.a[i])
    /\ request.args = Arr(CallerArgs)

\* C5: a configure call on a directory with neither configure nor config
\* throws a ConfigNotFoundError whose message names both candidates and the
\* directory, whatever the shape of args and options.
C5_ConfigNotFound ==
  (call.api = "configure" /\ call.present \cap {wellKnownScripts[1], wellKnownScripts[2]} = {}) =>
    /\ pc = "done"
    /\ outcome.kind = "ConfigNotFoundError"
    /\ ~Launched
    /\ Contains(outcome.message, <<"c","o","n","f","i","g","u","r","e",","," ","c","o","n","f","i","g"," ">>)
    /\ EndsWith(outcome.message, <<" ","u","n","d","e","r"," ">> \o call.cwd)

C5_Witness ==
  /\ call.api = "configure"
  /\ call.present = {}
  /\ Overloaded
  /\ outcome.kind = "ConfigNotFoundError"

\* C6: a configure call runs <workingDir>/configure when configure exists,
\* <workingDir>/config when only config exists, and hands the Command Runner
\* the args and options it was given.
C6_ConfigureScriptAndArgs ==
  (call.api = "configure" /\ call.present # {}) =>
    /\ Launched
    /\ request.cmd =
         call.cwd \o <<"/">> \o
           (IF <<"c","o","n","f","i","g","u","r","e">> \in call.present
            THEN <<"c","o","n","f","i","g","u","r","e">>
            ELSE <<"c","o","n","f","i","g">>)
    /\ request.args = (IF Overloaded \/ call.args.t \in {"undefined", "null"}
                       THEN Arr(<<>>) ELSE call.args)
    /\ \A k \in Keys :
         request.options.o[k] =
           IF isUndefined(CallerOptions[k]) THEN DefaultOption(k) ELSE CallerOptions[k]

C6_Witness ==
  /\ call.api = "configure"
  /\ Cardinality(call.present) = 2
  /\ call.args.t = "string"
  /\ callChildren = 1
  /\ EndsWith(request.cmd, <<"/","c","o","n","f","i","g","u","r","e">>)

\* C7: for run, configure and make, the second argument-position parameter is
\* the options (and the args are empty) exactly when no options were given and
\* it is a plain object; otherwise it is the args and is not read as options.
C7_OverloadResolution ==
  (call.api \in {"run", "configure", "make"} /\ Launched) =>
    LET extra == IF call.api = "make" /\ request.args.a # <<>> /\ IsJobsFlag(request.args.a[1])
                 THEN Tail(request.args.a)
                 ELSE IF call.api = "make" THEN request.args.a
                 ELSE <<>>
    IN IF isUndefined(call.options) /\ call.args.t = "object"
       THEN /\ \A k \in Keys :
                 request.options.o[k] =
                   IF isUndefined(call.args.o[k]) THEN DefaultOption(k) ELSE call.args.o[k]
            /\ IF call.api = "make" THEN extra = <<>> ELSE request.args = Arr(<<>>)
       ELSE /\ \A k \in Keys :
                 request.options.o[k] =
                   IF call.options.t = "object" /\ ~isUndefined(call.options.o[k])
                   THEN call.options.o[k] ELSE DefaultOption(k)
            /\ IF call.api = "make"
               THEN /\ call.args.t = "array" => extra = call.args.a
                    /\ call.args.t \in {"string", "object"} => extra # <<>>
                    /\ call.args.t \in {"undefined", "null"} => extra = <<>>
               ELSE request.args = (IF call.args.t \in {"undefined", "null"}
                                    THEN Arr(<<>>) ELSE call.args)

C7_Witness ==
  /\ call.api = "run" /\ Launched
  /\ isUndefined(call.options)
  /\ call.args = Obj(With(NoKeys, "env", EnvTest))
  /\ request.options.o["env"] = EnvTest
  /\ request.args = Arr(<<>>)

\* C8: a patch call runs the command patch with exactly -p<patchLevel>, -i and
\* the patch file, patchLevel being options.patchLevel when given and 0 when
\* options is absent, null or has no patchLevel.
C8_PatchArguments ==
  call.api = "patch" =>
    /\ Launched
    /\ request.cmd = <<"p","a","t","c","h">>
    /\ request.args =
         Arr(<< Str(<<"-","p">> \o
                  (IF call.options.t = "object" /\ ~isUndefined(call.options.o["patchLevel"])
                   THEN Decimal(call.options.o["patchLevel"].n) ELSE <<"0">>)),
                Str(<<"-","i">>), Str(call.cmd) >>)

C8_Witness ==
  /\ call.api = "patch"
  /\ isNull(call.options)
  /\ callChildren = 1
  /\ request.args.a[1] = Str(<<"-","p","0">>)

\* C9: over any sequence of make calls the core-count detection runs at most
\* once, every call that needs the core count sees the value the first
\* detection computed, and that value is max(2, number of processor lines) on
\* Linux and 2 elsewhere.
C9_DetectionOnceAndFloor ==
  /\ detections <= 1
  /\ reads >= 1 => detections = 1 /\ cache.cached /\ cache.cores = firstCores
  /\ detections = 1 =>
       firstCores =
         IF hostRead.platform = "linux"
         THEN Max(2, Cardinality({i \in 1..Len(hostRead.cpuinfo) : hostRead.cpuinfo[i] = ProcessorLine}))
         ELSE 2
  /\ (call.api = "make" /\ call.cores # 0) => call.cores = firstCores

C9_Witness ==
  /\ reads = 2
  /\ detections = 1
  /\ call.api = "make"
  /\ call.cores = 3
  /\ Len(hostRead.cpuinfo) = 3

\* C10 as stated: every call spawns exactly one child, so once a call is over
\* the children spawned are as many as the calls made, and never two at once.
C10_OneChildPerCall ==
  /\ alive <= 1
  /\ pc # "blocked" => spawned = invocations

\* C10 amended: a call spawns one child and stays blocked until it has
\* terminated, except a call that throws before the launch (configure finding
\* no script, or an executable that cannot be started), which spawns none.
C10_OneChildUnlessEarlyFailure ==
  /\ alive <= 1
  /\ callChildren <= 1
  /\ pc = "blocked" <=> alive = 1
  /\ spawned + failedEarly = invocations
  /\ pc = "done" =>
       /\ callChildren = 0 <=> outcome.kind \in {"ConfigNotFoundError", "SpawnError"}
       /\ callChildren = 1 <=> childResult # NoResult
  /\ (call.api = "configure" /\ FindFirst(call.present) = 0) => callChildren = 0
  /\ outcome.kind = "ConfigNotFoundError" => call.api = "configure" /\ call.present = {}

C10_Witness ==
  /\ invocations = 2
  /\ spawned = 1
  /\ failedEarly = 1
  /\ call.api = "patch"
  /\ outcome.kind = "return"

=============================================================================
